---- MODULE Spec2Model ----
(***************************************************************************)
(* Photo ingestion pipeline of dogrod-studio: processPhotoFromR2,          *)
(* processPhotoUpload, reprocessPhoto, the operator edit actions, the      *)
(* background geocode task and the withRetry wrapper.                      *)
(*                                                                         *)
(* The relational store and the blob store are external services: every    *)
(* call to them either takes effect or fails, chosen nondeterministically. *)
(***************************************************************************)
EXTENDS Integers, FiniteSets, Sequences, TLC

\* ------------------------------------------------------------------------
\* Bounds of the model
\* ------------------------------------------------------------------------
\* number of ingest calls (each draws a fresh photoId / assetId)
MaxRuns == 2
\* number of reprocess calls
MaxReprocess == 2

\* options a caller hands to withRetry: maxAttempts, baseDelayMs, maxDelayMs
\* (delays in small whole units)
MaxAttemptsArg == 4
MaxBaseDelayArg == 2
MaxMaxDelayArg == 6

\* number of pixels of an image handed to computeHistogram
MaxPixels == 2

\* number of loadYears calls
MaxLoads == 2

\* upload manager: number of processFiles calls and of files in one call
MaxBatches == 2
MaxBatchSize == 2

\* ------------------------------------------------------------------------
\* Program constants
\* ------------------------------------------------------------------------
MAX_RETRY_ATTEMPTS == 3
GEOCODE_MAX_ATTEMPTS == 5

Null == "null"
NoRow == [present |-> FALSE]
Absent == "absent"

Ids == 1..MaxRuns

\* RENDITIONS, in the order the code iterates them
RENDITIONS == <<"thumb", "list", "detail">>
VariantSet == {RENDITIONS[i] : i \in 1..Len(RENDITIONS)}
BlobNames == {"original"} \cup VariantSet

\* Storage ids.  A client-supplied storageId is any id a presign call handed
\* out (one per run, numbered like the runs); processPhotoUpload uses its own
\* photoId as storage id, which no presign call ever hands out.
ClientSids == Ids
LegacySid(p) == 0 - p
AllSids == ClientSids \cup {LegacySid(p) : p \in Ids}
Keys == AllSids \X BlobNames

\* What the bytes of an original are: an accepted decodable image, a decodable
\* image of a type outside ACCEPTED_TYPES, or bytes sharp reads no size from.
Contents == {"jpeg", "gif", "corrupt"}
ACCEPTED_TYPES == {"image/jpeg", "image/png", "image/webp"}

\* the content type a caller declares
DeclaredTypes == {"image/jpeg", "application/pdf"}

LocFields == {"country", "region", "city", "place_name"}
EmptyLoc == [f \in LocFields |-> Null]

ExifKinds == {"none", "plain", "gps"}

VARIABLES
  assets,      \* table assets: id -> NoRow or a row
  photos,      \* table photos: id -> NoRow or a row
  exifRows,    \* table photo_exif: number of rows per photo_id
  rendRows,    \* table photo_rendition: number of rows per (photo_id, variant)
  histRows,    \* table photo_histogram: number of rows per photo_id
  blobs,       \* R2 bucket: key -> Absent or the object's content
  run,         \* the pipeline invocation in progress
  nextId,      \* next fresh photoId / assetId
  reprocessed, \* number of reprocess calls so far
  outcome,     \* per ingest call: how it ended
  reResult,    \* how the last reprocess call ended
  geo,         \* per photo: the background geocode task
  retry,       \* a call of withRetry
  dup,         \* the last response of POST /check-duplicate
  cachedYears, \* lib/data/photos.ts: the cached promise of the distinct years
  hist,        \* a call of computeHistogram
  uploads,     \* upload manager: the items and their status
  duplicateConfirm, \* upload manager: the state of the duplicate dialog
  queues       \* upload manager: the processQueue loops in progress

clientVars == <<uploads, duplicateConfirm, queues>>

vars == <<assets, photos, exifRows, rendRows, histRows, blobs, run, nextId,
          reprocessed, outcome, reResult, geo, retry, dup, cachedYears, hist,
          uploads, duplicateConfirm, queues>>

pipelineVars == <<assets, photos, exifRows, rendRows, histRows, blobs, run, nextId,
                  reprocessed, outcome, reResult, geo, dup, cachedYears, hist,
                  clientVars>>

dbVars == <<assets, photos, exifRows, rendRows, histRows>>

\* what a reprocess call found when it was entered: the photo's rendition and
\* histogram rows and the bucket
NoSnapshot == [rend |-> [v \in VariantSet |-> 0], hist |-> 0,
               blobs |-> [k \in Keys |-> Absent]]

IdleRun == [kind |-> "none", pc |-> "idle", photoId |-> 0, sid |-> 0,
            contentType |-> "", content |-> Absent, exif |-> "none",
            tier |-> 0, attempt |-> 0, uploaded |-> {},
            renditionError |-> FALSE, histogramError |-> FALSE,
            updateError |-> FALSE, before |-> NoSnapshot]

NoOutcome == [res |-> "none", phase |-> "none", tier |-> 0, cleanup |-> "none"]

IdleGeo == [pc |-> "none", snap |-> EmptyLoc, attempt |-> 0, payload |-> EmptyLoc]

IdleRetry == [pc |-> "idle", maxAttempts |-> 0, baseDelayMs |-> 0, maxDelayMs |-> 0,
              attempt |-> 0, calls |-> 0, cappedDelay |-> 0, delayMs |-> 0,
              sleeps |-> 0, lastCall |-> "none", result |-> "none", attempts |-> 0,
              lastError |-> 0]

NoResponse == [checksum |-> Null, status |-> 0, exists |-> FALSE,
               storeFailed |-> FALSE]

\* let cachedYears: Promise<number[]> | null = null.  promise is the promise
\* the variable refers to (0 for null), loads are the promises loadYears
\* returned so far; stale (the loads made before the last invalidation) and
\* returned (what the last fetchDistinctYears since then returned) record
\* the history.
NoLoad == [state |-> "none", years |-> {}]
EmptyCache == [promise |-> 0, loads |-> [l \in 1..MaxLoads |-> NoLoad],
               stale |-> {}, returned |-> 0]

\* upload manager: the items of all processFiles calls; an item that is not in
\* `uploads` yet has status "none"
Items == 1..(MaxBatches * MaxBatchSize)
TerminalStatuses == {"success", "skipped", "error"}

\* useState<DuplicateConfirmState>: resolve is the item whose pending promise
\* the stored resolve function settles (0 for null)
ClosedDialog == [isOpen |-> FALSE, uploadItemId |-> 0, resolve |-> 0]

\* a processQueue(items) call: the items, the index of the current one and
\* the await the current uploadFile call is at
NoQueue == [items |-> <<>>, pos |-> 0, pc |-> "none"]

\* no HistogramResult yet
NoHistogram ==
  [countsLuma |-> <<>>, countsRed |-> <<>>, countsGreen |-> <<>>,
   countsBlue |-> <<>>,
   highlightsPct |-> [num |-> 0, den |-> 1], shadowsPct |-> [num |-> 0, den |-> 1]]

IdleHist == [pc |-> "idle", data |-> <<>>, width |-> 0, height |-> 0,
             channels |-> 0, result |-> NoHistogram]

RenditionKey(sid, v) == <<sid, v>>
OriginalKey(sid) == <<sid, "original">>

Init ==
  /\ assets = [i \in Ids |-> NoRow]
  /\ photos = [i \in Ids |-> NoRow]
  /\ exifRows = [i \in Ids |-> 0]
  /\ rendRows = [i \in Ids |-> [v \in VariantSet |-> 0]]
  /\ histRows = [i \in Ids |-> 0]
  /\ blobs = [k \in Keys |-> Absent]
  /\ run = IdleRun
  /\ nextId = 1
  /\ reprocessed = 0
  /\ outcome = [i \in Ids |-> NoOutcome]
  /\ reResult = [photoId |-> 0, res |-> "none"]
  /\ geo = [i \in Ids |-> IdleGeo]
  /\ retry = IdleRetry
  /\ dup = NoResponse
  /\ cachedYears = EmptyCache
  /\ hist = IdleHist
  /\ uploads = [i \in Items |-> "none"]
  /\ duplicateConfirm = ClosedDialog
  /\ queues = [b \in 1..MaxBatches |-> NoQueue]

\* ------------------------------------------------------------------------
\* Blob store and relational store primitives
\* ------------------------------------------------------------------------
\* DeleteObjectCommand for each key of `keys`; the deletes in `failed` reject
\* and are swallowed.
DeleteObjects(b, keys, failed) ==
  [k \in Keys |-> IF k \in keys /\ k \notin failed THEN Absent ELSE b[k]]

PutObject(b, key, content) == [b EXCEPT ![key] = content]

\* ------------------------------------------------------------------------
\* How a call ends
\* ------------------------------------------------------------------------
Threw(phase, tier, cleanup) ==
  [res |-> "threw", phase |-> phase, tier |-> tier, cleanup |-> cleanup]

\* variant of Returned in which the call ends with an error instead
ReturnedError == [res |-> "threw", phase |-> "return", tier |-> 0, cleanup |-> "none"]

Returned == [res |-> "returned", phase |-> "none", tier |-> 0, cleanup |-> "none"]

\* the exception leaves processPhotoFromR2 / processPhotoUpload
IngestThrows(phase, tier, cleanup) ==
  /\ outcome' = [outcome EXCEPT ![run.photoId] = Threw(phase, tier, cleanup)]
  /\ run' = IdleRun


\* the exception leaves reprocessPhoto
ReprocessThrows ==
  /\ reResult' = [photoId |-> run.photoId, res |-> "threw"]
  /\ run' = IdleRun

\* variant of IsLastAttempt that never holds
NeverLastAttempt(attempt, maxAttempts) == FALSE

\* withRetry: isLastAttempt = attempt === maxAttempts - 1
IsLastAttempt(attempt, maxAttempts) == attempt = maxAttempts - 1

\* ------------------------------------------------------------------------
\* lib/data/photos.ts: the distinct-years cache
\* ------------------------------------------------------------------------
\* variant of InvalidatePhotoYearCache that keeps the cached promise
CacheKept(c) ==
  [c EXCEPT !.stale = {l \in 1..MaxLoads : c.loads[l].state # "none"},
            !.returned = 0]

\* invalidatePhotoYearCache: cachedYears = null
InvalidatePhotoYearCache(c) ==
  [c EXCEPT !.promise = 0,
            !.stale = {l \in 1..MaxLoads : c.loads[l].state # "none"},
            !.returned = 0]

\* fetchDistinctYears: if (!cachedYears) cachedYears = loadYears().catch(...);
\* return cachedYears
FetchDistinctYears ==
  /\ IF cachedYears.promise = 0
       THEN \E l \in 1..MaxLoads :
              /\ cachedYears.loads[l].state = "none"
              /\ \A k \in 1..(l - 1) : cachedYears.loads[k].state # "none"
              /\ cachedYears' = [cachedYears EXCEPT !.promise = l, !.returned = l,
                                                    !.loads[l].state = "pending"]
       ELSE cachedYears' = [cachedYears EXCEPT !.returned = cachedYears.promise]
  /\ UNCHANGED <<dbVars, blobs, run, nextId, reprocessed, outcome, reResult, geo,
                 retry, dup, hist, clientVars>>

\* loadYears: the query answers, the years of all rows of photos
LoadYearsResolve(l) ==
  /\ cachedYears.loads[l].state = "pending"
  /\ cachedYears' = [cachedYears EXCEPT
                       !.loads[l] = [state |-> "resolved",
                                     years |-> {p \in Ids : photos[p] # NoRow}]]
  /\ UNCHANGED <<dbVars, blobs, run, nextId, reprocessed, outcome, reResult, geo,
                 retry, dup, hist, clientVars>>

\* loadYears throws: the catch handler sets cachedYears = null and rethrows
LoadYearsReject(l) ==
  /\ cachedYears.loads[l].state = "pending"
  /\ cachedYears' = [cachedYears EXCEPT !.loads[l].state = "rejected",
                                        !.promise = 0]
  /\ UNCHANGED <<dbVars, blobs, run, nextId, reprocessed, outcome, reResult, geo,
                 retry, dup, hist, clientVars>>

\* ------------------------------------------------------------------------
\* processPhotoFromR2
\* ------------------------------------------------------------------------
\* what the client PUT through its presigned URL before it calls /complete:
\* an object of some content, or nothing ("keep": the key holds what it held)
ClientPuts == Contents \cup {"keep"}

\* POST /complete: storageId and key come from the request body
StartIngest(s, put, ct) ==
  /\ run.kind = "none"
  /\ nextId <= MaxRuns
  /\ s <= nextId
  /\ blobs' = IF put = "keep" THEN blobs ELSE PutObject(blobs, OriginalKey(s), put)
  /\ run' = [IdleRun EXCEPT !.kind = "ingest", !.pc = "read", !.photoId = nextId,
                            !.sid = s, !.contentType = ct]
  /\ nextId' = nextId + 1
  /\ UNCHANGED <<dbVars, reprocessed, outcome, reResult, geo, retry, dup, cachedYears, hist, clientVars>>

\* Phase 1: withRetry(readFileFromR2)
ReadOriginal ==
  /\ run.kind = "ingest" /\ run.pc = "read"
  /\ \E ok \in (IF blobs[OriginalKey(run.sid)] # Absent THEN BOOLEAN ELSE {FALSE}) :
       IF ok
         THEN /\ run' = [run EXCEPT !.pc = "decode", !.attempt = 0,
                                    !.content = blobs[OriginalKey(run.sid)]]
              /\ UNCHANGED outcome
         ELSE IF IsLastAttempt(run.attempt, MAX_RETRY_ATTEMPTS)
           THEN IngestThrows("read", 0, "none")
           ELSE /\ run' = [run EXCEPT !.attempt = @ + 1]
                /\ UNCHANGED outcome
  /\ UNCHANGED <<dbVars, blobs, nextId, reprocessed, reResult, geo, retry, dup, cachedYears, hist, clientVars>>

\* derivedType = metadata.format ? `image/${metadata.format}` : ""
DerivedType(content) == IF content = "corrupt" THEN "" ELSE "image/" \o content

\* variant of TypeAccepted that wants both types accepted
BothTypesAccepted(contentType, content) ==
  contentType \in ACCEPTED_TYPES /\ DerivedType(content) \in ACCEPTED_TYPES

\* matchesType || matchesDerived
TypeAccepted(contentType, content) ==
  contentType \in ACCEPTED_TYPES \/ DerivedType(content) \in ACCEPTED_TYPES

\* variant of CleanupR2Object that leaves the original in place
CleanupSkipped(sid, delOk) ==
  blobs' = blobs

\* cleanupR2Object(originalKey): one delete, failure swallowed
CleanupR2Object(sid, delOk) ==
  blobs' = DeleteObjects(blobs, {OriginalKey(sid)},
                         IF delOk THEN {} ELSE {OriginalKey(sid)})

\* variant of Decode that runs after the assets insert
DecodeAfterAssetInsert ==
  /\ run.kind = "ingest" /\ run.pc = "decode"
  /\ assets' = [assets EXCEPT ![run.photoId] =
                                 [sid |-> run.sid, checksum |-> run.content]]
  /\ IF run.content = "corrupt"
       THEN \/ /\ IngestThrows("decode", 0, "none")
               /\ UNCHANGED blobs
            \/ \E delOk \in BOOLEAN :
                 /\ CleanupR2Object(run.sid, delOk)
                 /\ IngestThrows("decode", 0, IF delOk THEN "clean" ELSE "partial")
       ELSE IF ~TypeAccepted(run.contentType, run.content)
         THEN \E delOk \in BOOLEAN :
                 /\ CleanupR2Object(run.sid, delOk)
                 /\ IngestThrows("type", 0, IF delOk THEN "clean" ELSE "partial")
         ELSE \E e \in ExifKinds :
                 /\ run' = [run EXCEPT !.pc = "asset", !.exif = e]
                 /\ UNCHANGED <<blobs, outcome>>
  /\ UNCHANGED <<photos, exifRows, rendRows, histRows, nextId, reprocessed,
                 reResult, geo, retry, dup, cachedYears, hist, clientVars>>

\* Phase 2: metadata, type check, EXIF
Decode ==
  /\ run.kind = "ingest" /\ run.pc = "decode"
  /\ IF run.content = "corrupt"
       THEN \/ /\ IngestThrows("decode", 0, "none")   \* metadata() rejects
               /\ UNCHANGED blobs
            \/ \E delOk \in BOOLEAN :                  \* no width / height
                 /\ CleanupR2Object(run.sid, delOk)
                 /\ IngestThrows("decode", 0, IF delOk THEN "clean" ELSE "partial")
       ELSE IF ~TypeAccepted(run.contentType, run.content)
         THEN \E delOk \in BOOLEAN :
                 /\ CleanupR2Object(run.sid, delOk)
                 /\ IngestThrows("type", 0, IF delOk THEN "clean" ELSE "partial")
         ELSE \E e \in ExifKinds :
                 /\ run' = [run EXCEPT !.pc = "asset", !.exif = e]
                 /\ UNCHANGED <<blobs, outcome>>
  /\ UNCHANGED <<dbVars, nextId, reprocessed, reResult, geo, retry, dup, cachedYears, hist, clientVars>>

AssetRow(sid, content) == [sid |-> sid, checksum |-> content]

\* Phase 3: insert into assets
InsertAsset ==
  /\ run.kind = "ingest" /\ run.pc = "asset"
  /\ \/ /\ assets' = [assets EXCEPT ![run.photoId] = AssetRow(run.sid, run.content)]
        /\ run' = [run EXCEPT !.pc = "photo"]
        /\ UNCHANGED <<blobs, outcome>>
     \/ \E delOk \in BOOLEAN :
          /\ CleanupR2Object(run.sid, delOk)
          /\ IngestThrows("asset", 0, IF delOk THEN "clean" ELSE "partial")
          /\ UNCHANGED assets
  /\ UNCHANGED <<photos, exifRows, rendRows, histRows, nextId, reprocessed,
                 reResult, geo, retry, dup, cachedYears, hist, clientVars>>

\* variant of DraftPhoto that is published from the start
PublishedAtInsert(assetId) ==
  [status |-> "published", is_visible |-> TRUE, visibility |-> "public",
   dominant_color |-> Null, blurhash |-> Null, loc |-> EmptyLoc,
   asset |-> assetId]

\* photoRecord of processPhotoFromR2
DraftPhoto(assetId) ==
  [status |-> "draft", is_visible |-> FALSE, visibility |-> "private",
   dominant_color |-> Null, blurhash |-> Null, loc |-> EmptyLoc,
   asset |-> assetId]

\* Phase 3: insert into photos
InsertPhoto ==
  /\ run.kind = "ingest" /\ run.pc = "photo"
  /\ \/ /\ photos' = [photos EXCEPT ![run.photoId] = DraftPhoto(run.photoId)]
        /\ run' = [run EXCEPT !.pc = IF run.exif = "none" THEN "generate" ELSE "exif"]
        /\ UNCHANGED <<assets, blobs, outcome>>
     \/ \E assetDelOk \in BOOLEAN, delOk \in BOOLEAN :
          /\ assets' = IF assetDelOk THEN [assets EXCEPT ![run.photoId] = NoRow]
                                     ELSE assets
          /\ CleanupR2Object(run.sid, delOk)
          /\ IngestThrows("photo", 0,
                          IF assetDelOk /\ delOk THEN "clean" ELSE "partial")
          /\ UNCHANGED photos
  /\ UNCHANGED <<exifRows, rendRows, histRows, nextId, reprocessed, reResult, geo, retry, dup, cachedYears, hist, clientVars>>

\* Phase 3: insert into photo_exif, failure tolerated
InsertExif ==
  /\ run.kind = "ingest" /\ run.pc = "exif"
  /\ \E ok \in BOOLEAN :
       exifRows' = IF ok THEN [exifRows EXCEPT ![run.photoId] = @ + 1] ELSE exifRows
  /\ run' = [run EXCEPT !.pc = "generate"]
  /\ UNCHANGED <<assets, photos, rendRows, histRows, blobs, nextId, reprocessed,
                 outcome, reResult, geo, retry, dup, cachedYears, hist, clientVars>>

\* Phase 4: generateSingleRendition for each tier; a sharp error propagates
GenerateRenditions ==
  /\ run.kind = "ingest" /\ run.pc = "generate"
  /\ \/ /\ run' = [run EXCEPT !.pc = "upload", !.tier = 1, !.attempt = 0]
        /\ UNCHANGED outcome
     \/ IngestThrows("generate", 0, "none")
  /\ UNCHANGED <<dbVars, blobs, nextId, reprocessed, reResult, geo, retry, dup, cachedYears, hist, clientVars>>

\* variant of RollbackKeys that leaves the original out
RenditionKeysOnly(sid) == {RenditionKey(sid, v) : v \in VariantSet}

\* the keys handed to deleteR2Objects when an upload exhausts its attempts
RollbackKeys(sid) ==
  {OriginalKey(sid)} \cup {RenditionKey(sid, v) : v \in VariantSet}

CleanupTables == {"photo_histogram", "photo_rendition", "photo_exif", "photos", "assets"}

\* Which calls of a batch of store calls fail: none, all of them (the service
\* is unreachable), or all but the first (it becomes unreachable meanwhile).
FailurePatterns(calls, first) == {{}, calls, calls \ {first}}

\* cleanupPhotoRecords: five deletes by id; those in `failed` do not take effect
CleanupPhotoRecords(photoId, assetId, failed) ==
  /\ histRows' = IF "photo_histogram" \in failed THEN histRows
                 ELSE [histRows EXCEPT ![photoId] = 0]
  /\ rendRows' = IF "photo_rendition" \in failed THEN rendRows
                 ELSE [rendRows EXCEPT ![photoId] = [v \in VariantSet |-> 0]]
  /\ exifRows' = IF "photo_exif" \in failed THEN exifRows
                 ELSE [exifRows EXCEPT ![photoId] = 0]
  /\ photos' = IF "photos" \in failed THEN photos
               ELSE [photos EXCEPT ![photoId] = NoRow]
  /\ assets' = IF "assets" \in failed THEN assets
               ELSE [assets EXCEPT ![assetId] = NoRow]

\* variant of AfterUpload that leaves the loop after its first iteration
AfterFirstUpload(r) ==
  [r EXCEPT !.pc = "rendrows", !.attempt = 0,
            !.uploaded = @ \cup {RENDITIONS[r.tier]}]

\* for (const rendition of renditions): the upload of the current tier
\* succeeded, the loop goes on to the next tier or ends
AfterUpload(r) ==
  IF r.tier < Len(RENDITIONS)
    THEN [r EXCEPT !.tier = @ + 1, !.attempt = 0,
                   !.uploaded = @ \cup {RENDITIONS[r.tier]}]
    ELSE [r EXCEPT !.pc = "rendrows", !.attempt = 0,
                   !.uploaded = @ \cup {RENDITIONS[r.tier]}]

\* Phase 5: withRetry(uploadRenditionToR2) per tier; exhaustion rolls back
UploadRendition ==
  /\ run.kind = "ingest" /\ run.pc = "upload"
  /\ \E ok \in BOOLEAN :
       IF ok
         THEN /\ blobs' = PutObject(blobs, RenditionKey(run.sid, RENDITIONS[run.tier]), "jpeg")
              /\ run' = AfterUpload(run)
              /\ UNCHANGED <<dbVars, outcome>>
         ELSE IF IsLastAttempt(run.attempt, MAX_RETRY_ATTEMPTS)
           THEN \E dbFailed \in FailurePatterns(CleanupTables, "photo_histogram"),
                   blobFailed \in FailurePatterns(RollbackKeys(run.sid),
                                                  OriginalKey(run.sid)) :
                  /\ CleanupPhotoRecords(run.photoId, run.photoId, dbFailed)
                  /\ blobs' = DeleteObjects(blobs, RollbackKeys(run.sid), blobFailed)
                  /\ IngestThrows("upload", run.tier,
                                  IF dbFailed = {} /\ blobFailed = {}
                                    THEN "clean" ELSE "partial")
           ELSE /\ run' = [run EXCEPT !.attempt = @ + 1]
                /\ UNCHANGED <<dbVars, blobs, outcome>>
  /\ UNCHANGED <<nextId, reprocessed, reResult, geo, retry, dup, cachedYears, hist, clientVars>>

\* variant of RenditionInsertAllowed for a table without a unique key
AnyInsertAllowed(rows, photoId) == TRUE

\* photo_rendition holds at most one row per (photo_id, variant_name)
RenditionInsertAllowed(rows, photoId) ==
  \A v \in VariantSet : rows[photoId][v] = 0

\* photo_histogram holds at most one row per photo_id
HistogramInsertAllowed(rows, photoId) == rows[photoId] = 0

\* batch insert into photo_rendition, failure tolerated (ingest and reprocess)
InsertRenditions(kind) ==
  /\ run.kind = kind /\ run.pc = "rendrows"
  /\ \E ok \in (IF RenditionInsertAllowed(rendRows, run.photoId)
                  THEN BOOLEAN ELSE {FALSE}) :
       rendRows' = IF ok THEN [rendRows EXCEPT ![run.photoId] =
                                 [v \in VariantSet |-> @[v] + 1]]
                         ELSE rendRows
  /\ run' = [run EXCEPT !.pc = "derive", !.renditionError = (rendRows' = rendRows)]
  /\ UNCHANGED <<assets, photos, exifRows, histRows, blobs, nextId, reprocessed,
                 outcome, reResult, geo, retry, dup, cachedYears, hist, clientVars>>

\* Phase 6: computeHistogram, computeDominantColor, computeBlurhash
ComputeDerived(kind) ==
  /\ run.kind = kind /\ run.pc = "derive"
  /\ \/ /\ run' = [run EXCEPT !.pc = "histrow"]
        /\ UNCHANGED <<outcome, reResult>>
     \/ IF kind = "ingest"
          THEN IngestThrows("derive", 0, "none") /\ UNCHANGED reResult
          ELSE ReprocessThrows /\ UNCHANGED outcome
  /\ UNCHANGED <<dbVars, blobs, nextId, reprocessed, geo, retry, dup, cachedYears, hist, clientVars>>

\* Phase 7: insert into photo_histogram, failure tolerated
InsertHistogram(kind) ==
  /\ run.kind = kind /\ run.pc = "histrow"
  /\ \E ok \in (IF HistogramInsertAllowed(histRows, run.photoId)
                  THEN BOOLEAN ELSE {FALSE}) :
       histRows' = IF ok THEN [histRows EXCEPT ![run.photoId] = @ + 1] ELSE histRows
  /\ run' = [run EXCEPT !.pc = "finalize", !.histogramError = (histRows' = histRows)]
  /\ UNCHANGED <<assets, photos, exifRows, rendRows, blobs, nextId, reprocessed,
                 outcome, reResult, geo, retry, dup, cachedYears, hist, clientVars>>

\* variant of Published that writes the derived fields and leaves a draft
Unpublished(row) ==
  [row EXCEPT !.dominant_color = "color", !.blurhash = "hash",
              !.status = "draft", !.visibility = "private", !.is_visible = FALSE]

\* the update of Phase 7 applied to a row
Published(row) ==
  [row EXCEPT !.dominant_color = "color", !.blurhash = "hash",
              !.status = "published", !.visibility = "public", !.is_visible = TRUE]

\* Phase 7: update photos ... where id = photoId, failure tolerated
FinalizePhoto(kind) ==
  /\ run.kind = kind /\ run.pc = "finalize"
  /\ \E ok \in BOOLEAN :
       /\ photos' = IF ok /\ photos[run.photoId] # NoRow
                      THEN [photos EXCEPT ![run.photoId] = Published(@)]
                      ELSE photos
       /\ run' = [run EXCEPT !.pc = "side", !.updateError = ~ok]
  /\ UNCHANGED <<assets, exifRows, rendRows, histRows, blobs, nextId, reprocessed,
                 outcome, reResult, geo, retry, dup, cachedYears, hist, clientVars>>


\* ------------------------------------------------------------------------
\* Background geocode task
\* ------------------------------------------------------------------------
\* needsGeocoding
NeedsGeocoding(loc) == \E f \in LocFields : loc[f] = Null

\* buildUpdatePayload: a field is in the payload (non-Null here) only if it is
\* empty in `existing` and the lookup returned a value for it
BuildUpdatePayload(existing, geocoded) ==
  [f \in LocFields |->
     IF existing[f] = Null /\ geocoded[f] # Null THEN geocoded[f] ELSE Null]

HasLocationUpdates(payload) == \E f \in LocFields : payload[f] # Null

\* variant of ApplyLocationUpdate that writes nothing
LocationUpdateDropped(row, payload) == row

\* update photos set <payload> where id = photoId
ApplyLocationUpdate(row, payload) ==
  [row EXCEPT !.loc = [f \in LocFields |->
                         IF payload[f] # Null THEN payload[f] ELSE @[f]]]

\* what the lookup can return for the four fields
\* (parseMapboxResponse: placeName falls back to feature.text, never null):
\* a place name alone, or all four
GeoResults == {[EmptyLoc EXCEPT !["place_name"] = "geo"], [f \in LocFields |-> "geo"]}

\* enqueueGeocodeTask: executeGeocodeTask runs up to its first await, the
\* promise is dropped with a catch handler attached
EnqueueGeocodeTask(g, photoId, tokenSet) ==
  [g EXCEPT ![photoId] = IF tokenSet THEN [IdleGeo EXCEPT !.pc = "fetch"]
                                     ELSE [IdleGeo EXCEPT !.pc = "skipped"]]

\* variant of GeoTaskFailed in which the rejection reaches the enqueuing call
GeoTaskFailureRethrown(out, photoId) ==
  [out EXCEPT ![photoId] = [res |-> "threw", phase |-> "geocode", tier |-> 0,
                            cleanup |-> "none"]]

\* the .catch handler of enqueueGeocodeTask: the error is logged, the outcome
\* of the call that enqueued the task is what it was
GeoTaskFailed(out, photoId) == out

GeoEnds(p, how) ==
  geo' = [geo EXCEPT ![p] = [IdleGeo EXCEPT !.pc = how]]

\* select country, region, city, place_name ... single()
GeoFetch(p) ==
  /\ geo[p].pc = "fetch"
  /\ \/ /\ GeoEnds(p, "failed")                         \* fetchError
        /\ outcome' = GeoTaskFailed(outcome, p)
     \/ /\ photos[p] = NoRow                            \* !photo
        /\ GeoEnds(p, "failed")
        /\ outcome' = GeoTaskFailed(outcome, p)
     \/ /\ photos[p] # NoRow
        /\ IF NeedsGeocoding(photos[p].loc)
             THEN geo' = [geo EXCEPT ![p].pc = "lookup", ![p].snap = photos[p].loc]
             ELSE GeoEnds(p, "skipped")
        /\ UNCHANGED outcome
  /\ UNCHANGED <<dbVars, blobs, run, nextId, reprocessed, reResult, retry, dup, cachedYears, hist, clientVars>>

\* withRetry(reverseGeocode) with RETRY_OPTIONS
GeoLookup(p) ==
  /\ geo[p].pc = "lookup"
  /\ \/ /\ GeoEnds(p, "nodata")                         \* an attempt returns null
        /\ UNCHANGED outcome
     \/ \E g \in GeoResults :                             \* an attempt returns g
          /\ LET payload == BuildUpdatePayload(geo[p].snap, g) IN
             IF HasLocationUpdates(payload)
               THEN geo' = [geo EXCEPT ![p].pc = "update", ![p].attempt = 0,
                                       ![p].payload = payload]
               ELSE GeoEnds(p, "nochange")
          /\ UNCHANGED outcome
     \/ IF IsLastAttempt(geo[p].attempt, GEOCODE_MAX_ATTEMPTS)   \* an attempt fails
          THEN /\ GeoEnds(p, "failed")
               /\ outcome' = GeoTaskFailed(outcome, p)
          ELSE /\ geo' = [geo EXCEPT ![p].attempt = @ + 1]
               /\ UNCHANGED outcome
  /\ UNCHANGED <<dbVars, blobs, run, nextId, reprocessed, reResult, retry, dup, cachedYears, hist, clientVars>>

\* update photos set <payload> where id = photoId
GeoUpdate(p) ==
  /\ geo[p].pc = "update"
  /\ \/ /\ photos' = IF photos[p] # NoRow
                       THEN [photos EXCEPT ![p] = ApplyLocationUpdate(@, geo[p].payload)]
                       ELSE photos
        /\ GeoEnds(p, "done")
        /\ UNCHANGED outcome
     \/ /\ GeoEnds(p, "failed")                          \* updateError
        /\ outcome' = GeoTaskFailed(outcome, p)
        /\ UNCHANGED photos
  /\ UNCHANGED <<assets, exifRows, rendRows, histRows, blobs, run, nextId,
                 reprocessed, reResult, retry, dup, cachedYears, hist, clientVars>>

\* ------------------------------------------------------------------------
\* processPhotoFromR2, last step
\* ------------------------------------------------------------------------
\* invalidatePhotoYearCache, enqueueGeocodeTask if EXIF had coordinates, return
IngestReturn ==
  /\ run.kind = "ingest" /\ run.pc = "side"
  /\ IF run.exif = "gps"
       THEN \E tokenSet \in BOOLEAN :
              geo' = EnqueueGeocodeTask(geo, run.photoId, tokenSet)
       ELSE UNCHANGED geo
  /\ outcome' = [outcome EXCEPT ![run.photoId] = Returned]
  /\ run' = IdleRun
  /\ cachedYears' = InvalidatePhotoYearCache(cachedYears)
  /\ UNCHANGED <<dbVars, blobs, nextId, reprocessed, reResult, retry, dup, hist, clientVars>>


\* ------------------------------------------------------------------------
\* reprocessPhoto
\* ------------------------------------------------------------------------
StartReprocess(p) ==
  /\ run.kind = "none"
  /\ reprocessed < MaxReprocess
  /\ p < nextId
  /\ run' = [IdleRun EXCEPT !.kind = "reprocess", !.pc = "rfetch", !.photoId = p,
                            !.before = [rend |-> rendRows[p], hist |-> histRows[p],
                                        blobs |-> blobs]]
  /\ reprocessed' = reprocessed + 1
  /\ reResult' = [photoId |-> p, res |-> "running"]
  /\ UNCHANGED <<dbVars, blobs, nextId, outcome, geo, retry, dup, cachedYears, hist, clientVars>>

\* the asset row joined to photo p, NoRow if the photo or its asset is missing
JoinedAsset(p) == IF photos[p] = NoRow THEN NoRow ELSE assets[photos[p].asset]

\* Step 1: select *, assets:asset_original_id(*) ... single()
ReprocessFetch ==
  /\ run.kind = "reprocess" /\ run.pc = "rfetch"
  /\ LET p == run.photoId IN
     \/ ReprocessThrows                                   \* photoError
     \/ /\ JoinedAsset(p) = NoRow                         \* !photo, !photo.assets
        /\ ReprocessThrows
     \/ /\ JoinedAsset(p) # NoRow
        /\ run' = [run EXCEPT !.pc = "rread", !.sid = JoinedAsset(p).sid]
        /\ UNCHANGED reResult
  /\ UNCHANGED <<dbVars, blobs, nextId, reprocessed, outcome, geo, retry, dup, cachedYears, hist, clientVars>>

\* Step 2: withRetry(readFileFromR2)
ReprocessRead ==
  /\ run.kind = "reprocess" /\ run.pc = "rread"
  /\ \E ok \in (IF blobs[OriginalKey(run.sid)] # Absent THEN BOOLEAN ELSE {FALSE}) :
       IF ok
         THEN /\ run' = [run EXCEPT !.pc = "rcleanup", !.attempt = 0,
                                    !.content = blobs[OriginalKey(run.sid)]]
              /\ UNCHANGED reResult
         ELSE IF IsLastAttempt(run.attempt, MAX_RETRY_ATTEMPTS)
           THEN ReprocessThrows
           ELSE /\ run' = [run EXCEPT !.attempt = @ + 1]
                /\ UNCHANGED reResult
  /\ UNCHANGED <<dbVars, blobs, nextId, reprocessed, outcome, geo, retry, dup, cachedYears, hist, clientVars>>

\* variant of ExistingRenditionKeys that includes the original
ExistingKeysAndOriginal(rows, photoId, sid) ==
  {OriginalKey(sid)}
    \cup {RenditionKey(sid, v) : v \in {w \in VariantSet : rows[photoId][w] > 0}}

\* existingRenditionKeys: the keys of the photo's rendition rows
ExistingRenditionKeys(rows, photoId, sid) ==
  {RenditionKey(sid, v) : v \in {w \in VariantSet : rows[photoId][w] > 0}}

\* Step 3: select the rendition urls, delete their blobs, delete the rendition
\* and histogram rows; no result of these calls is inspected
ReprocessCleanup ==
  /\ run.kind = "reprocess" /\ run.pc = "rcleanup"
  /\ \E selOk \in BOOLEAN, rendDelOk \in BOOLEAN, histDelOk \in BOOLEAN :
       LET keys == IF selOk THEN ExistingRenditionKeys(rendRows, run.photoId, run.sid)
                            ELSE {}
       IN /\ \E blobFailed \in {{}, keys} :
               blobs' = DeleteObjects(blobs, keys, blobFailed)
          /\ rendRows' = IF rendDelOk
                           THEN [rendRows EXCEPT ![run.photoId] = [v \in VariantSet |-> 0]]
                           ELSE rendRows
          /\ histRows' = IF histDelOk THEN [histRows EXCEPT ![run.photoId] = 0]
                                      ELSE histRows
  /\ run' = [run EXCEPT !.pc = "generate"]
  /\ UNCHANGED <<assets, photos, exifRows, nextId, reprocessed, outcome,
                 reResult, geo, retry, dup, cachedYears, hist, clientVars>>

\* Step 4: generateSingleRendition for each tier
ReprocessGenerate ==
  /\ run.kind = "reprocess" /\ run.pc = "generate"
  /\ \/ /\ run' = [run EXCEPT !.pc = "upload", !.tier = 1, !.attempt = 0]
        /\ UNCHANGED reResult
     \/ ReprocessThrows
  /\ UNCHANGED <<dbVars, blobs, nextId, reprocessed, outcome, geo, retry, dup, cachedYears, hist, clientVars>>

\* Step 5: withRetry(uploadRenditionToR2) per tier; exhaustion throws
ReprocessUpload ==
  /\ run.kind = "reprocess" /\ run.pc = "upload"
  /\ \E ok \in BOOLEAN :
       IF ok
         THEN /\ blobs' = PutObject(blobs, RenditionKey(run.sid, RENDITIONS[run.tier]), "jpeg")
              /\ run' = AfterUpload(run)
              /\ UNCHANGED reResult
         ELSE IF IsLastAttempt(run.attempt, MAX_RETRY_ATTEMPTS)
           THEN /\ ReprocessThrows
                /\ UNCHANGED blobs
           ELSE /\ run' = [run EXCEPT !.attempt = @ + 1]
                /\ UNCHANGED <<blobs, reResult>>
  /\ UNCHANGED <<dbVars, nextId, reprocessed, outcome, geo, retry, dup, cachedYears, hist, clientVars>>

\* invalidatePhotoYearCache, return
ReprocessReturn ==
  /\ run.kind = "reprocess" /\ run.pc = "side"
  /\ reResult' = [photoId |-> run.photoId, res |-> "returned"]
  /\ run' = IdleRun
  /\ cachedYears' = InvalidatePhotoYearCache(cachedYears)
  /\ UNCHANGED <<dbVars, blobs, nextId, reprocessed, outcome, geo, retry, dup, hist, clientVars>>

\* needsReprocessing(photo), exported beside reprocessPhoto
NeedsReprocessing(photo) ==
  IF photo.status # "published" THEN TRUE
  ELSE IF photo.blurhash = Null \/ photo.dominant_color = Null THEN TRUE
  ELSE FALSE

\* needsReprocessing(props) of the photo processing status component
NeedsReprocessingStatus(status, blurhash, dominantColor, hasHistogram, hasRenditions) ==
  IF status # "published" THEN TRUE
  ELSE IF blurhash = Null \/ dominantColor = Null THEN TRUE
  ELSE IF ~hasHistogram \/ ~hasRenditions THEN TRUE
  ELSE FALSE

\* ------------------------------------------------------------------------
\* processPhotoUpload (POST /api/admin/photos/upload)
\* ------------------------------------------------------------------------
StartUpload(c, ct) ==
  /\ run.kind = "none"
  /\ nextId <= MaxRuns
  /\ run' = [IdleRun EXCEPT !.kind = "upload", !.pc = "lprepare", !.photoId = nextId,
                            !.sid = LegacySid(nextId), !.contentType = ct, !.content = c]
  /\ nextId' = nextId + 1
  /\ UNCHANGED <<dbVars, blobs, reprocessed, outcome, reResult, geo, retry, dup, cachedYears, hist, clientVars>>

\* metadata, type check, generateRenditions, computeHistogram,
\* computeDominantColor, extractExif: nothing is stored yet
UploadPrepare ==
  /\ run.kind = "upload" /\ run.pc = "lprepare"
  /\ IF run.content = "corrupt"
       THEN IngestThrows("decode", 0, "none")
       ELSE IF ~TypeAccepted(run.contentType, run.content)
         THEN IngestThrows("type", 0, "none")
         ELSE \/ IngestThrows("generate", 0, "none")
              \/ \E e \in ExifKinds :
                   /\ run' = [run EXCEPT !.pc = "loriginal", !.exif = e]
                   /\ UNCHANGED outcome
  /\ UNCHANGED <<dbVars, blobs, nextId, reprocessed, reResult, geo, retry, dup, cachedYears, hist, clientVars>>

\* uploadOriginal: one PutObjectCommand, not retried
UploadOriginal ==
  /\ run.kind = "upload" /\ run.pc = "loriginal"
  /\ \/ /\ blobs' = PutObject(blobs, OriginalKey(run.sid), run.content)
        /\ run' = [run EXCEPT !.pc = "lrenditions"]
        /\ UNCHANGED outcome
     \/ /\ IngestThrows("original", 0, "none")
        /\ UNCHANGED blobs
  /\ UNCHANGED <<dbVars, nextId, reprocessed, reResult, geo, retry, dup, cachedYears, hist, clientVars>>

\* uploadRenditions: Promise.all over three PutObjectCommands, not retried
UploadRenditions ==
  /\ run.kind = "upload" /\ run.pc = "lrenditions"
  /\ \E done \in {VariantSet \ failed :
                  failed \in FailurePatterns(VariantSet, RENDITIONS[1])
                                \cup {{RENDITIONS[1]}}} :
       /\ blobs' = [k \in Keys |->
                      IF k[1] = run.sid /\ k[2] \in done THEN "jpeg" ELSE blobs[k]]
       /\ IF done = VariantSet
            THEN /\ run' = [run EXCEPT !.pc = "linsert", !.uploaded = done]
                 /\ UNCHANGED outcome
            ELSE IngestThrows("renditions", 0, "none")
  /\ UNCHANGED <<dbVars, nextId, reprocessed, reResult, geo, retry, dup, cachedYears, hist, clientVars>>

\* photoRecord of processPhotoUpload
UploadedPhoto(assetId) ==
  [status |-> "published", is_visible |-> TRUE, visibility |-> "public",
   dominant_color |-> "color", blurhash |-> Null, loc |-> EmptyLoc,
   asset |-> assetId]

UploadTables == {"assets", "photos", "photo_rendition", "photo_exif", "photo_histogram"}

\* the inserts of the try block (the awaited query builders resolve with an
\* error the code does not look at), invalidatePhotoYearCache,
\* enqueueGeocodeTask, return
UploadPersist ==
  /\ run.kind = "upload" /\ run.pc = "linsert"
  /\ LET p == run.photoId IN
     \E ok \in {UploadTables \ failed :
                failed \in FailurePatterns(UploadTables, "assets")} :
       /\ assets' = IF "assets" \in ok
                      THEN [assets EXCEPT ![p] = AssetRow(run.sid, run.content)]
                      ELSE assets
       /\ photos' = IF "photos" \in ok
                      THEN [photos EXCEPT ![p] = UploadedPhoto(p)]
                      ELSE photos
       /\ rendRows' = IF "photo_rendition" \in ok
                        THEN [rendRows EXCEPT ![p] = [v \in VariantSet |-> @[v] + 1]]
                        ELSE rendRows
       /\ exifRows' = IF "photo_exif" \in ok /\ run.exif # "none"
                        THEN [exifRows EXCEPT ![p] = @ + 1]
                        ELSE exifRows
       /\ histRows' = IF "photo_histogram" \in ok
                        THEN [histRows EXCEPT ![p] = @ + 1]
                        ELSE histRows
  /\ IF run.exif = "gps"
       THEN \E tokenSet \in BOOLEAN :
              geo' = EnqueueGeocodeTask(geo, run.photoId, tokenSet)
       ELSE UNCHANGED geo
  /\ outcome' = [outcome EXCEPT ![run.photoId] = Returned]
  /\ run' = IdleRun
  /\ cachedYears' = InvalidatePhotoYearCache(cachedYears)
  /\ UNCHANGED <<blobs, nextId, reprocessed, reResult, retry, dup, hist, clientVars>>

\* ------------------------------------------------------------------------
\* Operator edits
\* ------------------------------------------------------------------------
\* update photos set is_visible = isVisible where id = photoId
SetPhotoVisibilityAction(p, isVisible) ==
  /\ photos[p] # NoRow
  /\ photos[p].is_visible # isVisible
  /\ photos' = [photos EXCEPT ![p].is_visible = isVisible]
  /\ UNCHANGED <<assets, exifRows, rendRows, histRows, blobs, run, nextId,
                 reprocessed, outcome, reResult, geo, retry, dup, cachedYears, hist, clientVars>>

\* the location payloads an operator submits: none, a place name, all four
OperatorLocs == {EmptyLoc, [EmptyLoc EXCEPT !["place_name"] = "op"],
                 [f \in LocFields |-> "op"]}

\* update photos set place_name, city, region, country, is_visible, ...
UpdatePhotoAction(p, loc, isVisible) ==
  /\ photos[p] # NoRow
  /\ photos[p].loc # loc \/ photos[p].is_visible # isVisible
  /\ photos' = [photos EXCEPT ![p].loc = loc, ![p].is_visible = isVisible]
  /\ UNCHANGED <<assets, exifRows, rendRows, histRows, blobs, run, nextId,
                 reprocessed, outcome, reResult, geo, retry, dup, cachedYears, hist, clientVars>>

\* ------------------------------------------------------------------------
\* POST /api/admin/photos/check-duplicate
\* ------------------------------------------------------------------------
\* from assets select id, photos!inner(...) where checksum = c: the Asset rows
\* with that checksum that a Photo row refers to
LinkedAssets(c) ==
  {a \in Ids : /\ assets[a] # NoRow
               /\ assets[a].checksum = c
               /\ \E p \in Ids : photos[p] # NoRow /\ photos[p].asset = a}

\* .maybeSingle(): no row gives null, one row gives the row, several rows give
\* an error
MaybeSingle(rows) ==
  IF Cardinality(rows) > 1 THEN [error |-> TRUE, data |-> 0]
  ELSE IF rows = {} THEN [error |-> FALSE, data |-> 0]
  ELSE [error |-> FALSE, data |-> CHOOSE a \in rows : TRUE]

\* the handler: 500 on queryError, else 200 with exists = (asset is not null)
CheckDuplicate(c) ==
  /\ run.kind = "none"
  /\ \E queryFails \in BOOLEAN :
       LET q == MaybeSingle(LinkedAssets(c)) IN
       dup' = IF queryFails \/ q.error
                THEN [checksum |-> c, status |-> 500, exists |-> FALSE,
                      storeFailed |-> queryFails]
                ELSE [checksum |-> c, status |-> 200, exists |-> q.data # 0,
                      storeFailed |-> FALSE]
  /\ dup' # dup
  /\ UNCHANGED <<assets, photos, exifRows, rendRows, histRows, blobs, run, nextId,
                 reprocessed, outcome, reResult, geo, retry, cachedYears, hist,
                 clientVars>>

\* ------------------------------------------------------------------------
\* withRetry
\* ------------------------------------------------------------------------
Min(a, b) == IF a < b THEN a ELSE b

\* variant of LoopContinues that runs one iteration more
LoopContinuesOneMore(attempt, maxAttempts) == attempt <= maxAttempts

\* the loop condition of withRetry
LoopContinues(attempt, maxAttempts) == attempt < maxAttempts

\* variant of CappedDelay indexed by the attempt that follows the sleep
CappedDelayOfNextAttempt(attempt, baseDelayMs, maxDelayMs) ==
  Min(baseDelayMs * 2^(attempt + 1), maxDelayMs)

\* computeDelayWithJitter: cappedDelay
CappedDelay(attempt, baseDelayMs, maxDelayMs) ==
  Min(baseDelayMs * 2^attempt, maxDelayMs)

\* computeDelayWithJitter: Math.random() * cappedDelay with Math.random() in
\* [0, 1), in whole units
JitterDelays(cappedDelay) == 0..(cappedDelay - 1)

\* a caller enters withRetry(fn, options)
WithRetry(maxAttempts, baseDelayMs, maxDelayMs) ==
  /\ retry.pc = "idle"
  /\ retry' = [IdleRetry EXCEPT !.pc = "loop", !.maxAttempts = maxAttempts,
                                !.baseDelayMs = baseDelayMs,
                                !.maxDelayMs = maxDelayMs]
  /\ UNCHANGED pipelineVars

\* one iteration of the loop: await fn() in the try block, then the catch block
\* up to its sleep
RetryAttempt ==
  /\ retry.pc = "loop"
  /\ LoopContinues(retry.attempt, retry.maxAttempts)
  /\ \/ retry' = [retry EXCEPT !.pc = "done", !.calls = @ + 1,        \* fn resolves
                                !.lastCall = "resolved",
                                !.result = "success",
                                !.attempts = retry.attempt + 1]
     \/ IF IsLastAttempt(retry.attempt, retry.maxAttempts)            \* fn rejects
          THEN retry' = [retry EXCEPT !.calls = @ + 1, !.lastCall = "rejected",
                                      !.lastError = retry.calls + 1,
                                      !.attempt = @ + 1]
          ELSE LET capped == CappedDelay(retry.attempt, retry.baseDelayMs,
                                         retry.maxDelayMs)
               IN \E d \in JitterDelays(capped) :
                    retry' = [retry EXCEPT !.pc = "sleep", !.calls = @ + 1,
                                           !.lastCall = "rejected",
                                           !.lastError = retry.calls + 1,
                                           !.cappedDelay = capped,
                                           !.delayMs = d]
  /\ UNCHANGED pipelineVars

\* await sleep(delayMs), then attempt++
RetrySleep ==
  /\ retry.pc = "sleep"
  /\ retry' = [retry EXCEPT !.pc = "loop", !.sleeps = @ + 1, !.attempt = @ + 1]
  /\ UNCHANGED pipelineVars

\* the loop is left: return { success: false, error: lastError, attempts: maxAttempts }
RetryExhausted ==
  /\ retry.pc = "loop"
  /\ ~LoopContinues(retry.attempt, retry.maxAttempts)
  /\ retry' = [retry EXCEPT !.pc = "done", !.result = "failure",
                            !.attempts = retry.maxAttempts]
  /\ UNCHANGED pipelineVars

\* ------------------------------------------------------------------------
\* computeHistogram
\* ------------------------------------------------------------------------
\* sample values of the raw buffer (8 bit): the two threshold values; pixels
\* mixing them have lumas in between
PixelValues == {25, 230}

\* info.channels of sharp(buffer).removeAlpha().raw(): R, G, B
Channels == 3

\* data[i] of a Buffer (0-indexed); past the end it is undefined
Undefined == 0 - 1
NaN == 0 - 2
DataAt(data, i) == IF i < Len(data) THEN data[i + 1] ELSE Undefined

\* Math.round of num / den for num >= 0
Round(num, den) == (2 * num + den) \div (2 * den)

Max(a, b) == IF a > b THEN a ELSE b

\* Math.max(0, Math.min(255, Math.round(0.2126 * r + 0.7152 * g + 0.0722 * b)))
Luma(r, g, b) ==
  IF Undefined \in {r, g, b} THEN NaN
  ELSE Max(0, Min(255, Round(2126 * r + 7152 * g + 722 * b, 10000)))

\* variant of PixelOffsets that steps by one sample
EverySampleOffset(len, channels) == 0..(len - 1)

\* for (let i = 0; i < data.length; i += info.channels)
PixelOffsets(len, channels) == {i \in 0..(len - 1) : i % channels = 0}

\* countsRed[r] += 1 (c = 0), countsGreen[g] += 1 (c = 1), countsBlue[b] += 1
\* (c = 2) over the loop
ChannelCounts(data, channels, c) ==
  LET offsets == PixelOffsets(Len(data), channels)
      value == [i \in offsets |-> DataAt(data, i + c)]
  IN [k \in 0..255 |-> Cardinality({i \in offsets : value[i] = k})]

\* countsLuma[luma] += 1 over the loop
LumaCounts(data, channels) ==
  LET offsets == PixelOffsets(Len(data), channels)
      luma == [i \in offsets |->
                 Luma(DataAt(data, i), DataAt(data, i + 1), DataAt(data, i + 2))]
  IN [k \in 0..255 |-> Cardinality({i \in offsets : luma[i] = k})]

\* counts.slice(from, to).reduce((acc, value) => acc + value, 0)
RECURSIVE SliceSum(_, _, _)
SliceSum(counts, from, to) ==
  IF from >= to THEN 0
  ELSE IF to = from + 1 THEN counts[from]
  ELSE LET mid == (from + to) \div 2
       IN SliceSum(counts, from, mid) + SliceSum(counts, mid, to)

\* totalPixels > 0 ? (count / totalPixels) * 100 : 0, as an exact fraction
Pct(count, totalPixels) ==
  IF totalPixels > 0 THEN [num |-> count * 100, den |-> totalPixels]
  ELSE [num |-> 0, den |-> 1]

\* what computeHistogram returns
HistogramResult(data, width, height, channels) ==
  LET countsLuma == LumaCounts(data, channels)
      totalPixels == width * height
  IN [countsLuma |-> countsLuma,
      countsRed |-> ChannelCounts(data, channels, 0),
      countsGreen |-> ChannelCounts(data, channels, 1),
      countsBlue |-> ChannelCounts(data, channels, 2),
      highlightsPct |-> Pct(SliceSum(countsLuma, 230, 256), totalPixels),
      shadowsPct |-> Pct(SliceSum(countsLuma, 0, 25), totalPixels)]

\* image.raw().toBuffer({ resolveWithObject: true }): width * height pixels of
\* Channels samples each
RawToBuffer(width, height, data) ==
  /\ hist.pc = "idle"
  /\ Len(data) = width * height * Channels
  /\ hist' = [IdleHist EXCEPT !.pc = "raw", !.data = data, !.width = width,
                              !.height = height, !.channels = Channels]
  /\ UNCHANGED <<dbVars, blobs, run, nextId, reprocessed, outcome, reResult, geo,
                 retry, dup, cachedYears, clientVars>>

\* the loop over the buffer and the two percentages
ComputeHistogram ==
  /\ hist.pc = "raw"
  /\ hist' = [hist EXCEPT !.pc = "done",
                          !.result = HistogramResult(hist.data, hist.width,
                                                     hist.height, hist.channels)]
  /\ UNCHANGED <<dbVars, blobs, run, nextId, reprocessed, outcome, reResult, geo,
                 retry, dup, cachedYears, clientVars>>

\* ------------------------------------------------------------------------
\* Upload manager (components/admin/upload/upload-manager.tsx)
\* ------------------------------------------------------------------------
serverVars == <<dbVars, blobs, run, nextId, reprocessed, outcome, reResult, geo,
                retry, dup, cachedYears, hist>>

\* the files of the next processFiles call
NewItems(n) ==
  LET used == Cardinality({i \in Items : uploads[i] # "none"})
  IN [k \in 1..n |-> used + k]

\* processFiles(files): the items are added with status idle and
\* processQueue(items) is started, not awaited
ProcessFiles(n) ==
  /\ \E b \in 1..MaxBatches :
       /\ queues[b].pc = "none"
       /\ \A c \in 1..(b - 1) : queues[c].pc # "none"
       /\ queues' = [queues EXCEPT ![b] = [items |-> NewItems(n), pos |-> 1,
                                            pc |-> "loop"]]
  /\ uploads' = [i \in Items |->
                   IF \E k \in 1..n : NewItems(n)[k] = i THEN "idle" ELSE uploads[i]]
  /\ UNCHANGED <<serverVars, duplicateConfirm>>

\* uploadFile returned (or the file was not valid): the for loop goes on
NextItem(q) == [q EXCEPT !.pos = @ + 1, !.pc = "loop"]

\* processQueue: the head of the for loop, validateFile, and uploadFile up to
\* its first await (checkForDuplicate with or without Web Crypto)
ProcessQueue(b) ==
  /\ queues[b].pc = "loop"
  /\ IF queues[b].pos > Len(queues[b].items)
       THEN /\ queues' = [queues EXCEPT ![b].pc = "done"]
            /\ UNCHANGED uploads
       ELSE LET item == queues[b].items[queues[b].pos] IN
            \E valid \in BOOLEAN, webCrypto \in BOOLEAN :
              IF ~valid
                THEN /\ uploads' = [uploads EXCEPT ![item] = "error"]
                     /\ queues' = [queues EXCEPT ![b] = NextItem(@)]
                ELSE IF webCrypto
                  THEN /\ uploads' = [uploads EXCEPT ![item] = "checking"]
                       /\ queues' = [queues EXCEPT ![b].pc = "check"]
                  ELSE /\ uploads' = [uploads EXCEPT ![item] = "presigning"]
                       /\ queues' = [queues EXCEPT ![b].pc = "presign"]
  /\ UNCHANGED <<serverVars, duplicateConfirm>>

\* checkForDuplicate after its fetch: an error or exists = false goes on to
\* the presign request; exists = true stores the dialog state with the
\* resolve function of a new promise and awaits that promise
CheckForDuplicate(b) ==
  /\ queues[b].pc = "check"
  /\ LET item == queues[b].items[queues[b].pos] IN
     \E response \in {"failed", "absent", "exists"} :
       IF response = "exists"
         THEN /\ duplicateConfirm' = [isOpen |-> TRUE, uploadItemId |-> item,
                                      resolve |-> item]
              /\ queues' = [queues EXCEPT ![b].pc = "dialog"]
              /\ UNCHANGED uploads
         ELSE /\ uploads' = [uploads EXCEPT ![item] = "presigning"]
              /\ queues' = [queues EXCEPT ![b].pc = "presign"]
              /\ UNCHANGED duplicateConfirm
  /\ UNCHANGED serverVars

\* handleDuplicateConfirm(shouldContinue): the operator answers the dialog
\* that is shown; the stored resolve function is called and the state reset.
\* The uploadFile call awaiting that promise goes on: skipped, or presigning.
HandleDuplicateConfirm(shouldContinue) ==
  /\ duplicateConfirm.isOpen
  /\ duplicateConfirm' = ClosedDialog
  /\ LET item == duplicateConfirm.resolve
         waiting == {b \in 1..MaxBatches :
                       /\ queues[b].pc = "dialog"
                       /\ queues[b].items[queues[b].pos] = item}
     IN IF waiting = {}
          THEN UNCHANGED <<uploads, queues>>
          ELSE /\ uploads' = [uploads EXCEPT ![item] = IF shouldContinue
                                                          THEN "presigning"
                                                          ELSE "skipped"]
               /\ queues' = [b \in 1..MaxBatches |->
                               IF b \in waiting
                                 THEN IF shouldContinue
                                        THEN [queues[b] EXCEPT !.pc = "presign"]
                                        ELSE NextItem(queues[b])
                                 ELSE queues[b]]
  /\ UNCHANGED serverVars

\* one awaited request of uploadFile settles: on success the item takes the
\* next status, on failure the catch block sets error and uploadFile returns
RequestSettles(b, at, status, next) ==
  /\ queues[b].pc = at
  /\ LET item == queues[b].items[queues[b].pos] IN
     \E ok \in BOOLEAN :
       IF ok /\ next # "loop"
         THEN /\ uploads' = [uploads EXCEPT ![item] = status]
              /\ queues' = [queues EXCEPT ![b].pc = next]
         ELSE /\ uploads' = [uploads EXCEPT ![item] = IF ok THEN status ELSE "error"]
              /\ queues' = [queues EXCEPT ![b] = NextItem(@)]
  /\ UNCHANGED <<serverVars, duplicateConfirm>>

\* POST /api/admin/photos/upload/presign answers
PresignResponse(b) == RequestSettles(b, "presign", "uploading", "put")

\* uploadToR2 settles
UploadToR2(b) == RequestSettles(b, "put", "processing", "complete")

\* POST /api/admin/photos/upload/complete answers
CompleteResponse(b) == RequestSettles(b, "complete", "success", "loop")

\* ------------------------------------------------------------------------
\* Specifications
\* ------------------------------------------------------------------------
IngestSteps ==
  \/ ReadOriginal
  \/ Decode
  \/ InsertAsset
  \/ InsertPhoto
  \/ InsertExif
  \/ GenerateRenditions
  \/ UploadRendition
  \/ InsertRenditions("ingest")
  \/ ComputeDerived("ingest")
  \/ InsertHistogram("ingest")
  \/ FinalizePhoto("ingest")
  \/ IngestReturn

UploadSteps ==
  \/ UploadPrepare
  \/ UploadOriginal
  \/ UploadRenditions
  \/ UploadPersist

ReprocessSteps ==
  \/ ReprocessFetch
  \/ ReprocessRead
  \/ ReprocessCleanup
  \/ ReprocessGenerate
  \/ ReprocessUpload
  \/ InsertRenditions("reprocess")
  \/ ComputeDerived("reprocess")
  \/ InsertHistogram("reprocess")
  \/ FinalizePhoto("reprocess")
  \/ ReprocessReturn

\* the first call of a behaviour
FirstCall ==
  /\ nextId = 1
  /\ \/ \E put \in ClientPuts, ct \in DeclaredTypes : StartIngest(1, put, ct)
     \/ \E c \in Contents, ct \in DeclaredTypes : StartUpload(c, ct)

\* Ingest calls, one after the other, through either route.
Next ==
  \/ \E s \in ClientSids, put \in ClientPuts, ct \in DeclaredTypes : StartIngest(s, put, ct)
  \/ \E c \in Contents, ct \in DeclaredTypes : StartUpload(c, ct)
  \/ IngestSteps
  \/ UploadSteps

Spec == Init /\ [][Next]_vars

\* One ingest call and the reprocess calls that follow it.
NextReprocess ==
  \/ FirstCall
  \/ IngestSteps
  \/ UploadSteps
  \/ \E p \in Ids : StartReprocess(p)
  \/ ReprocessSteps

SpecReprocess == Init /\ [][NextReprocess]_vars

\* One ingest call, the operator's edits and the background geocode task.
NextEdit ==
  \/ FirstCall
  \/ IngestSteps
  \/ UploadSteps
  \/ \E p \in Ids, v \in BOOLEAN : SetPhotoVisibilityAction(p, v)
  \/ \E p \in Ids, loc \in OperatorLocs, v \in BOOLEAN : UpdatePhotoAction(p, loc, v)
  \/ \E p \in Ids : GeoFetch(p)
  \/ \E p \in Ids : GeoLookup(p)
  \/ \E p \in Ids : GeoUpdate(p)

SpecEdit == Init /\ [][NextEdit]_vars

\* The same, with every started step of a geocode task completing: the
\* continuation of an awaited request runs once the request has settled.
SpecGeocode ==
  /\ Init /\ [][NextEdit]_vars
  /\ \A p \in Ids : /\ WF_vars(GeoFetch(p))
                    /\ WF_vars(GeoLookup(p))
                    /\ WF_vars(GeoUpdate(p))

\* Ingest calls of an upload client (each on the storage id it was handed for
\* it) and its duplicate checks.
NextDuplicate ==
  \/ \E put \in Contents, ct \in DeclaredTypes : StartIngest(nextId, put, ct)
  \/ IngestSteps
  \/ \E c \in Contents : CheckDuplicate(c)

SpecDuplicate == Init /\ [][NextDuplicate]_vars

\* One call of withRetry with any options and any operation.
NextRetry ==
  \/ \E m \in 1..MaxAttemptsArg, b \in 1..MaxBaseDelayArg, c \in 1..MaxMaxDelayArg :
       WithRetry(m, b, c)
  \/ RetryAttempt
  \/ RetrySleep
  \/ RetryExhausted

SpecRetry == Init /\ [][NextRetry]_vars

\* One call of computeHistogram on any small image.
NextHistogram ==
  \/ \E n \in 1..MaxPixels, w \in 1..MaxPixels :
       \E data \in [1..(n * Channels) -> PixelValues] :
         n % w = 0 /\ RawToBuffer(w, n \div w, data)
  \/ ComputeHistogram

SpecHistogram == Init /\ [][NextHistogram]_vars

\* One ingest call, the reprocess calls that follow it, and the reads of the
\* distinct years by the photo list.
NextYears ==
  \/ NextReprocess
  \/ FetchDistinctYears
  \/ \E l \in 1..MaxLoads : LoadYearsResolve(l)
  \/ \E l \in 1..MaxLoads : LoadYearsReject(l)

SpecYears == Init /\ [][NextYears]_vars

\* The upload manager: the operator adds files and answers the dialog, the
\* requests of each uploadFile call settle.
NextManager ==
  \/ \E n \in 1..MaxBatchSize : ProcessFiles(n)
  \/ \E b \in 1..MaxBatches : ProcessQueue(b)
  \/ \E b \in 1..MaxBatches : CheckForDuplicate(b)
  \/ \E c \in BOOLEAN : HandleDuplicateConfirm(c)
  \/ \E b \in 1..MaxBatches : PresignResponse(b)
  \/ \E b \in 1..MaxBatches : UploadToR2(b)
  \/ \E b \in 1..MaxBatches : CompleteResponse(b)

\* every request completes and the operator answers every dialog shown
SpecManager ==
  /\ Init /\ [][NextManager]_vars
  /\ \A b \in 1..MaxBatches : /\ WF_vars(ProcessQueue(b))
                               /\ WF_vars(CheckForDuplicate(b))
                               /\ WF_vars(PresignResponse(b))
                               /\ WF_vars(UploadToR2(b))
                               /\ WF_vars(CompleteResponse(b))
  /\ WF_vars(\E c \in BOOLEAN : HandleDuplicateConfirm(c))

\* ------------------------------------------------------------------------
\* Properties
\* ------------------------------------------------------------------------
\* C1: no Photo row is visible (is_visible) or public (visibility) while its
\* status is not published.
C1_UnpublishedNeverVisible ==
  \A p \in Ids :
    (photos[p] # NoRow /\ photos[p].status # "published")
      => (~photos[p].is_visible /\ photos[p].visibility # "public")

\* C2 (as amended): when a rendition upload of processPhotoFromR2 exhausts its
\* attempts the call throws, and if every compensating delete took effect the
\* original blob, every rendition blob of the run and the rows of the photo in
\* all five tables are gone.
C2_RollbackRemovesWhatItDeletes ==
  [][(run.kind = "ingest" /\ run.pc = "upload" /\ run' = IdleRun)
       => LET p == run.photoId IN
          /\ outcome'[p].res = "threw"
          /\ outcome'[p].cleanup = "clean"
               => /\ photos'[p] = NoRow /\ assets'[p] = NoRow
                  /\ exifRows'[p] = 0 /\ histRows'[p] = 0
                  /\ \A v \in VariantSet : rendRows'[p][v] = 0
                  /\ \A n \in BlobNames : blobs'[<<run.sid, n>>] = Absent]_vars

\* C2 witness: an upload of the last tier exhausted its attempts after the
\* earlier tiers were uploaded, and every delete of the rollback took effect
C2_RolledBack ==
  \E p \in Ids :
    /\ outcome[p] = Threw("upload", Len(RENDITIONS), "clean")
    /\ photos[p] = NoRow /\ assets[p] = NoRow

\* C2 as stated: after an upload exhausted its attempts, the Photo and Asset
\* rows of that call are removed.
C2_UploadFailureRemovesRows ==
  \A p \in Ids :
    (outcome[p].res = "threw" /\ outcome[p].phase = "upload")
      => (photos[p] = NoRow /\ assets[p] = NoRow)

\* C3: an ingest call that ended with an error leaves no Photo and no Asset row
\* of that call (calls whose compensating deletes themselves failed set aside).
C3_ErrorLeavesNoRows ==
  \A p \in Ids :
    (outcome[p].res = "threw" /\ outcome[p].cleanup # "partial")
      => (photos[p] = NoRow /\ assets[p] = NoRow)

\* C4: a published photo has a dominant color and a blurhash; a draft has
\* neither.
C4_PlaceholdersFollowStatus ==
  \A p \in Ids :
    photos[p] # NoRow
      => /\ photos[p].status = "published"
              => (photos[p].dominant_color # Null /\ photos[p].blurhash # Null)
         /\ photos[p].status = "draft"
              => (photos[p].dominant_color = Null /\ photos[p].blurhash = Null)

\* C5: an ingest call that ends with an error deletes no blob of a photo an
\* earlier call returned: not its original, as long as it holds the bytes the
\* Asset row of that photo records, and none of its renditions.
C5_RollbackSparesEarlierPhotos ==
  [][(run.kind = "ingest" /\ run' = IdleRun /\ outcome'[run.photoId].res = "threw")
       => \A q \in Ids :
            (q # run.photoId /\ outcome[q].res = "returned" /\ assets[q] # NoRow)
              => /\ blobs[OriginalKey(assets[q].sid)] = assets[q].checksum
                      => blobs'[OriginalKey(assets[q].sid)] = assets[q].checksum
                 /\ \A v \in VariantSet :
                      blobs[RenditionKey(assets[q].sid, v)] # Absent
                        => blobs'[RenditionKey(assets[q].sid, v)] # Absent]_vars

\* C6: the update of the geocode task changes a location field only if the
\* field is empty when the update is applied.
C6_WritesOnlyEmptyFields ==
  [][\A p \in Ids :
       (geo[p].pc = "update" /\ geo'[p].pc = "done" /\ photos[p] # NoRow)
         => \A f \in LocFields :
              photos'[p].loc[f] # photos[p].loc[f] => photos[p].loc[f] = Null]_vars

\* C7: the call that enqueued a geocode task has returned its result, and the
\* result stays what it was whatever becomes of the task.
C7_TaskNeverReachesCaller ==
  \A p \in Ids : geo[p].pc # "none" => outcome[p] = Returned

\* C7 witness: a task failed after the call that enqueued it returned
C7_TaskFailedAfterReturn ==
  \E p \in Ids : geo[p].pc = "failed" /\ outcome[p] = Returned

\* C8: for maxAttempts >= 1, withRetry invokes the operation at most
\* maxAttempts times and ends with a result, which is the failure result when
\* every invocation rejected.
C8_AtMostMaxAttemptsNoThrow ==
  (retry.pc # "idle" /\ retry.maxAttempts >= 1)
    => /\ retry.calls <= retry.maxAttempts
       /\ retry.result \in {"none", "success", "failure"}
       /\ retry.pc = "done" <=> retry.result # "none"
       /\ (retry.pc = "done" /\ retry.lastCall = "rejected")
            => (retry.result = "failure" /\ retry.calls = retry.maxAttempts)

\* C8 witness: several invocations, all rejected
C8_AllAttemptsRejected ==
  /\ retry.pc = "done" /\ retry.result = "failure"
  /\ retry.maxAttempts >= 2 /\ retry.calls = retry.maxAttempts

\* C9 (as amended): the delay slept before attempt k (0-indexed, k >= 1) is at
\* least 0 and below min(maxDelayMs, baseDelayMs * 2^(k-1)).
C9_DelayBelowCapOfFailedAttempt ==
  retry.pc = "sleep"
    => LET k == retry.attempt + 1
           cap == Min(retry.maxDelayMs, retry.baseDelayMs * 2^(k - 1))
       IN k >= 1 /\ retry.cappedDelay = cap /\ retry.delayMs \in 0..(cap - 1)

\* C9 witness: the largest delay before attempt 2 with the cap not reached
C9_LargestDelayBeforeSecondRetry ==
  /\ retry.pc = "sleep" /\ retry.attempt + 1 = 2
  /\ retry.baseDelayMs * 2 < retry.maxDelayMs
  /\ retry.delayMs = retry.baseDelayMs * 2 - 1

\* C9 as stated: the upper bound of the delay before attempt k is
\* min(maxDelayMs, baseDelayMs * 2^k).
C9_DelayCapOfNextAttempt ==
  retry.pc = "sleep"
    => LET k == retry.attempt + 1
       IN retry.cappedDelay = Min(retry.maxDelayMs, retry.baseDelayMs * 2^k)

C11_RowOnlyAfterUpload ==
  [][\A p \in Ids, v \in VariantSet :
       rendRows'[p][v] > rendRows[p][v]
         => (p = run.photoId /\ v \in run.uploaded
             /\ blobs[RenditionKey(run.sid, v)] # Absent)]_vars

\* C11 witness: a reprocess run uploaded the three variants and inserted their
\* rows
C11_ReprocessInsertedRows ==
  /\ run.kind = "reprocess" /\ run.pc = "derive"
  /\ run.uploaded = VariantSet
  /\ \A v \in VariantSet : rendRows[run.photoId][v] = 1

\* C12: no step sets a published Photo back to draft, and at the step at which
\* an ingest call ends with an error before its finalize step the Photo row of
\* the call, if there is one, is a draft.
C12_StatusOnlyMovesToPublished ==
  [][\A p \in Ids :
       /\ (photos[p] # NoRow /\ photos'[p] # NoRow
           /\ photos[p].status = "published")
            => photos'[p].status = "published"
       /\ (run.kind = "ingest" /\ run.photoId = p
           /\ outcome'[p].res = "threw" /\ photos'[p] # NoRow)
            => photos'[p].status = "draft"]_vars

\* C12 witness: the finalize step of reprocess has updated a photo that
\* processPhotoUpload had inserted as published
C12_RepublishedByReprocess ==
  /\ run.kind = "reprocess" /\ run.pc = "side"
  /\ run.sid = LegacySid(run.photoId)
  /\ photos[run.photoId] # NoRow
  /\ photos[run.photoId].status = "published"
  /\ photos[run.photoId].blurhash # Null

\* C13 (as amended): processPhotoFromR2 and reprocessPhoto make a Photo
\* published only in their finalize step, after the inserts of its rendition rows
\* and of its histogram row were issued; the three rendition rows exist then
\* unless the batch insert failed, and the histogram row unless its insert failed.
C13_PublishedAfterDerivedWrites ==
  [][\A p \in Ids :
       (run.kind \in {"ingest", "reprocess"} /\ photos'[p] # NoRow
        /\ photos'[p].status = "published"
        /\ (photos[p] = NoRow \/ photos[p].status # "published"))
         => /\ run.pc = "finalize" /\ run.photoId = p
            /\ ~run.renditionError => \A v \in VariantSet : rendRows'[p][v] = 1
            /\ ~run.histogramError => histRows'[p] = 1]_vars

\* C13 witness: a draft was published with its rendition and histogram rows
\* written
C13_PublishedWithRows ==
  /\ run.kind = "ingest" /\ run.pc = "side"
  /\ ~run.renditionError /\ ~run.histogramError
  /\ photos[run.photoId] # NoRow /\ photos[run.photoId].status = "published"
  /\ histRows[run.photoId] = 1

\* C13 as stated: a published Photo has its three rendition rows and its
\* histogram row.
C13_PublishedHasDerivedRows ==
  \A p \in Ids :
    (photos[p] # NoRow /\ photos[p].status = "published")
      => /\ histRows[p] >= 1
         /\ \A v \in VariantSet : rendRows[p][v] >= 1

\* C14: when the checksum asked for is on an Asset row that a Photo row of a
\* returned ingest call refers to, the duplicate check answers exists = true
\* (the store being reachable), however many such rows there are.
C14_StoredChecksumIsReported ==
  [][\A c \in Contents :
       (/\ dup' # dup /\ dup'.checksum = c /\ ~dup'.storeFailed
        /\ \A p \in Ids : outcome[p].res # "threw"
        /\ LinkedAssets(c) # {})
         => (dup'.status = 200 /\ dup'.exists)]_vars

\* C15: needsReprocessing is true of a photo exactly when its status is not
\* published, or its blurhash or dominant color is absent, or its histogram row
\* or a rendition row is missing.
C15_NeedsReprocessingIffIncomplete ==
  \A p \in Ids :
    photos[p] # NoRow
      => LET hasHistogram == histRows[p] > 0
             hasRenditions == \A v \in VariantSet : rendRows[p][v] > 0
             incomplete == \/ photos[p].status # "published"
                           \/ photos[p].blurhash = Null
                           \/ photos[p].dominant_color = Null
                           \/ ~hasHistogram
                           \/ ~hasRenditions
         IN /\ NeedsReprocessingStatus(photos[p].status, photos[p].blurhash,
                                       photos[p].dominant_color, hasHistogram,
                                       hasRenditions) = incomplete
            /\ NeedsReprocessing(photos[p]) = incomplete

\* C16: the type check of an ingest call rejects the original exactly when
\* neither the declared content type nor the type derived from the decoded
\* bytes is image/jpeg, image/png or image/webp; otherwise the call goes on.
C16_RejectedIffNeitherTypeAccepted ==
  [][(run.kind \in {"ingest", "upload"} /\ run.pc \in {"decode", "lprepare"}
      /\ run.content # "corrupt" /\ run' # run)
       => LET accepted == {"image/jpeg", "image/png", "image/webp"}
              declared == run.contentType \in accepted
              sniffed == run.content = "jpeg"
              rejected == /\ outcome'[run.photoId].res = "threw"
                          /\ outcome'[run.photoId].phase = "type"
          IN rejected <=> (~declared /\ ~sniffed)]_vars

\* C16 witness: the declared type is not accepted, the decoded bytes are, and
\* the call went on to its inserts
C16_PassedOnSniffedType ==
  /\ run.kind = "ingest" /\ run.pc = "asset"
  /\ run.contentType = "application/pdf" /\ run.content = "jpeg"

C18_FailedFinalUpdateLeavesDraft ==
  [][(run.kind = "ingest" /\ run.pc = "side" /\ run.updateError /\ run' # run)
       => LET p == run.photoId IN
          /\ outcome'[p].res = "returned"
          /\ photos'[p] # NoRow
          /\ photos'[p].status = "draft" /\ ~photos'[p].is_visible
          /\ photos'[p].dominant_color = Null /\ photos'[p].blurhash = Null
          /\ assets'[p] # NoRow
          /\ \A n \in BlobNames : blobs'[<<run.sid, n>>] # Absent
          /\ UNCHANGED <<assets, photos, exifRows, rendRows, histRows, blobs>>]_vars

\* C18 witness: a call returned with its rendition rows written and its Photo
\* still a draft
C18_ReturnedDraft ==
  \E p \in Ids :
    /\ outcome[p].res = "returned"
    /\ photos[p] # NoRow /\ photos[p].status = "draft"
    /\ photos[p].blurhash = Null
    /\ \A v \in VariantSet : rendRows[p][v] = 1

\* C19: when the assets insert or the photos insert of processPhotoFromR2
\* fails, the call ends with an error after asking for the original blob to
\* be deleted; no Photo row exists for the call, no rendition was uploaded
\* and no other blob or row changes. After a failed photos insert the Asset
\* row is deleted if the delete that is issued takes effect and stays
\* otherwise.
C19_InsertFailureAborts ==
  [][(run.kind = "ingest" /\ run.pc \in {"asset", "photo"}
      /\ outcome'[run.photoId].res = "threw")
       => LET p == run.photoId
              o == outcome'[p]
          IN /\ run'.kind = "none"
             /\ o.phase = run.pc
             /\ photos'[p] = NoRow
             /\ run.pc = "asset" => assets'[p] = NoRow
             /\ run.pc = "photo"
                  => /\ assets'[p] \in {NoRow, assets[p]}
                     /\ o.cleanup = "clean" => assets'[p] = NoRow
             /\ o.cleanup \in {"clean", "partial"}
             /\ o.cleanup = "clean" => blobs'[OriginalKey(run.sid)] = Absent
             /\ \A k \in Keys \ {OriginalKey(run.sid)} : blobs'[k] = blobs[k]
             /\ run.uploaded = {}
             /\ UNCHANGED <<exifRows, rendRows, histRows>>]_vars

\* C19 witness: a call ended at the photos insert with its Asset row and its
\* original blob deleted
C19_AbortedAtPhotoInsert ==
  \E p \in Ids :
    /\ outcome[p].res = "threw" /\ outcome[p].phase = "photo"
    /\ outcome[p].cleanup = "clean"
    /\ assets[p] = NoRow /\ photos[p] = NoRow

\* C19 as stated: a failed photos insert always leaves the call without its
\* Asset row
C19_PhotoFailureDeletesAsset ==
  [][(run.kind = "ingest" /\ run.pc = "photo"
      /\ outcome'[run.photoId].res = "threw")
       => assets'[run.photoId] = NoRow]_vars

\* C20: a call that fails at the metadata or type check has, at that moment
\* and at every earlier point of the run, no Asset, Photo or PhotoExif row
\* and has written no rendition blob and no rendition row.
C20_DecodeFailureLeavesNothing ==
  [][(run.kind \in {"ingest", "upload"} /\ run' # run)
       => LET p == run.photoId IN
          /\ run.pc \in {"read", "decode", "lprepare"}
               => /\ assets[p] = NoRow /\ photos[p] = NoRow /\ exifRows[p] = 0
                  /\ run.uploaded = {}
          /\ (outcome'[p].res = "threw" /\ outcome'[p].phase \in {"decode", "type"})
               => /\ run.pc \in {"decode", "lprepare"}
                  /\ assets'[p] = NoRow /\ photos'[p] = NoRow /\ exifRows'[p] = 0
                  /\ rendRows' = rendRows
                  /\ \A s \in AllSids : \A v \in VariantSet :
                       blobs'[RenditionKey(s, v)] = blobs[RenditionKey(s, v)]]_vars

\* C20 witness: a call was rejected at the type check and has no rows
C20_RejectedAtTypeCheck ==
  \E p \in Ids :
    /\ outcome[p].res = "threw" /\ outcome[p].phase = "type"
    /\ assets[p] = NoRow /\ photos[p] = NoRow /\ exifRows[p] = 0

\* C21: in every step of an ingest call (either route) that writes a rendition
\* blob which was not there, at most one such blob is written and the blobs of
\* all earlier tiers are in place: a tier is uploaded only after the tiers
\* before it succeeded, and none after a tier failed.
C21_UploadsOneTierAtATime ==
  [][run.kind \in {"ingest", "upload"}
       => LET written == {i \in 1..Len(RENDITIONS) :
                            /\ blobs[RenditionKey(run.sid, RENDITIONS[i])] = Absent
                            /\ blobs'[RenditionKey(run.sid, RENDITIONS[i])] # Absent}
          IN /\ Cardinality(written) <= 1
             /\ \A i \in written : \A j \in 1..(i - 1) :
                  blobs'[RenditionKey(run.sid, RENDITIONS[j])] # Absent]_vars

\* C22: highlightsPct is 100 times the fraction of pixels of luma >= 230 and
\* shadowsPct is 100 times the fraction of pixels of luma <= 25, both over
\* width * height.
C22_PercentagesMatchThresholds ==
  hist.pc = "done"
    => LET n == hist.width * hist.height
           hp == hist.result.highlightsPct
           sp == hist.result.shadowsPct
           lumaOf == [i \in 0..(n - 1) |->
                        Luma(DataAt(hist.data, i * hist.channels),
                             DataAt(hist.data, i * hist.channels + 1),
                             DataAt(hist.data, i * hist.channels + 2))]
           highlights == {i \in 0..(n - 1) : lumaOf[i] >= 230}
           shadows == {i \in 0..(n - 1) : lumaOf[i] <= 25}
       IN /\ hp.num * n = 100 * Cardinality(highlights) * hp.den
          /\ sp.num * n = 100 * Cardinality(shadows) * sp.den

\* C23: each of the four bucket arrays computeHistogram returns sums to
\* width * height, and highlightsPct + shadowsPct <= 100.
C23_BucketsSumToPixels ==
  hist.pc = "done"
    => LET n == hist.width * hist.height
           r == hist.result
       IN /\ SliceSum(r.countsLuma, 0, 256) = n
          /\ SliceSum(r.countsRed, 0, 256) = n
          /\ SliceSum(r.countsGreen, 0, 256) = n
          /\ SliceSum(r.countsBlue, 0, 256) = n
          /\ r.highlightsPct.num * r.shadowsPct.den
               + r.shadowsPct.num * r.highlightsPct.den
               <= 100 * r.highlightsPct.den * r.shadowsPct.den

\* C23 witness: a two-pixel image with one pixel of luma 230 or more and one
\* of luma 25
C23_HighlightAndShadow ==
  /\ hist.pc = "done"
  /\ hist.width * hist.height = 2
  /\ hist.result.highlightsPct.num = 100
  /\ hist.result.countsLuma[25] = 1

\* C24: every ingest call and every reprocess call that returns its result
\* leaves the years cache cleared, and a fetchDistinctYears after an
\* invalidation never returns a promise that loadYears made before it.
C24_InvalidatedBeforeReturn ==
  [][/\ (/\ run.kind \in {"ingest", "upload", "reprocess"}
         /\ run'.kind = "none"
         /\ \/ run.kind = "reprocess" /\ reResult'.res = "returned"
            \/ run.kind # "reprocess" /\ outcome'[run.photoId].res = "returned")
          => cachedYears'.promise = 0
     /\ cachedYears'.returned \notin cachedYears'.stale]_vars

\* C24 witness: the years were read, a call returned, and the next read got a
\* promise of a second loadYears
C24_ReloadedAfterInvalidation ==
  /\ cachedYears.stale = {1}
  /\ cachedYears.returned = 2
  /\ cachedYears.loads[1].state = "resolved"
  /\ cachedYears.loads[2].state = "resolved"
  /\ outcome[1].res = "returned"

\* C25: no step of a reprocess call changes a row of assets, a row of
\* photo_exif or an original blob.
C25_ReprocessKeepsOriginal ==
  [][(run.kind = "reprocess" \/ run'.kind = "reprocess")
       => /\ UNCHANGED <<assets, exifRows>>
          /\ \A s \in AllSids : blobs'[OriginalKey(s)] = blobs[OriginalKey(s)]]_vars

\* C25 witness: a reprocess call returned for a photo that has its PhotoExif
\* row, its Asset row and its original
C25_ReprocessedWithExif ==
  /\ reResult.res = "returned"
  /\ exifRows[1] = 1
  /\ assets[1] # NoRow
  /\ blobs[OriginalKey(1)] # Absent

\* C27: when a reprocess call ends with an error at the fetch of the photo,
\* at the read of the original or at a rendition upload, the photo's rendition
\* rows, its histogram row and the rendition blobs are what they were when
\* the call was entered.
C27_FailedReprocessChangesNothing ==
  [][(/\ run.kind = "reprocess" /\ run.pc \in {"rfetch", "rread", "upload"}
      /\ run'.kind = "none" /\ reResult'.res = "threw")
       => LET p == run.photoId IN
          /\ rendRows'[p] = run.before.rend
          /\ histRows'[p] = run.before.hist
          /\ \A s \in AllSids : \A v \in VariantSet :
               blobs'[RenditionKey(s, v)] = run.before.blobs[RenditionKey(s, v)]]_vars

\* C28 (as amended): when reprocessPhoto returns its result, the photo has its
\* three rendition rows unless their insert failed, its histogram row unless
\* its insert failed, and is published with dominant_color and blurhash unless
\* the final update failed; with none of the three failing it no longer needs
\* reprocessing.
C28_ReturnedReprocessIsComplete ==
  [][(run.kind = "reprocess" /\ run.pc = "side" /\ run'.kind = "none")
       => LET p == run.photoId IN
          /\ reResult'.res = "returned"
          /\ ~run.renditionError => \A v \in VariantSet : rendRows'[p][v] = 1
          /\ ~run.histogramError => histRows'[p] = 1
          /\ ~run.updateError
               => /\ photos'[p].status = "published"
                  /\ photos'[p].dominant_color # Null
                  /\ photos'[p].blurhash # Null
          /\ (~run.renditionError /\ ~run.histogramError /\ ~run.updateError)
               => ~NeedsReprocessingStatus(photos'[p].status, photos'[p].blurhash,
                                           photos'[p].dominant_color,
                                           histRows'[p] > 0,
                                           \A v \in VariantSet : rendRows'[p][v] > 0)]_vars

\* C28 witness: a reprocess call returned with nothing missing
C28_ReprocessReturnedComplete ==
  /\ reResult.res = "returned"
  /\ reprocessed = 1
  /\ photos[1] # NoRow /\ photos[1].status = "published"
  /\ photos[1].blurhash # Null /\ photos[1].dominant_color # Null
  /\ histRows[1] = 1
  /\ \A v \in VariantSet : rendRows[1][v] = 1

\* C28 as stated: whenever reprocessPhoto returns, the photo is published with
\* its derived fields, its three rendition rows and its histogram row
C28_ReturnedReprocessHasEverything ==
  [][(run.kind = "reprocess" /\ run.pc = "side" /\ run'.kind = "none")
       => LET p == run.photoId IN
          /\ photos'[p].status = "published"
          /\ photos'[p].dominant_color # Null /\ photos'[p].blurhash # Null
          /\ histRows'[p] = 1
          /\ \A v \in VariantSet : rendRows'[p][v] = 1]_vars

\* C26 (as amended): a geocode task that was started ends its read and its
\* lookup, and once the lookup has returned a value for a location field that
\* was empty, either that field of the photo gets a value or the task fails
\* at its update.
C26_TaskPopulatesEmptyFields ==
  \A p \in Ids :
    /\ (geo[p].pc \in {"fetch", "lookup"}) ~> (geo[p].pc \notin {"fetch", "lookup"})
    /\ \A f \in LocFields :
         (geo[p].pc = "update" /\ geo[p].payload[f] # Null)
           ~> \/ photos[p] # NoRow /\ photos[p].loc[f] # Null
              \/ geo[p].pc = "failed"

\* C26 witness: the task of a photo ended with the country written
C26_CountryPopulated ==
  \E p \in Ids :
    /\ geo[p].pc = "done"
    /\ photos[p] # NoRow /\ photos[p].loc["country"] = "geo"

\* C26 as stated: once the lookup has returned all four fields for a photo
\* whose fields were all empty, the photo's country gets a value
C26_LookupResultReachesPhoto ==
  \A p \in Ids :
    (geo[p].pc = "update" /\ \A f \in LocFields : geo[p].payload[f] # Null)
      ~> (photos[p] # NoRow /\ photos[p].loc["country"] # Null)

\* C30: once withRetry has its result it invokes nothing more; a success
\* result follows a resolved invocation and reports the number of invocations
\* made; a failure result reports maxAttempts, which is the number of
\* invocations made, with the error of the last of them; and every rejected
\* invocation but the last one of an exhausted call is followed by one sleep.
C30_ResultCountsInvocations ==
  [][/\ retry.pc = "done" => retry' = retry
     /\ retry'.pc = "done"
          => /\ retry'.sleeps = retry'.calls - 1
             /\ retry'.result = "success"
                  => /\ retry'.lastCall = "resolved"
                     /\ retry'.attempts = retry'.calls
             /\ retry'.result = "failure"
                  => /\ retry'.attempts = retry'.maxAttempts
                     /\ retry'.calls = retry'.maxAttempts
                     /\ retry'.lastCall = "rejected"
                     /\ retry'.lastError = retry'.calls]_vars

\* C30 witness: a call that succeeded on its second invocation
C30_SucceededOnSecondInvocation ==
  /\ retry.pc = "done" /\ retry.result = "success"
  /\ retry.attempts = 2 /\ retry.calls = 2 /\ retry.sleeps = 1
  /\ retry.maxAttempts > 2

\* C29: every item the upload manager has queued eventually has one of the
\* statuses success, skipped, error, and keeps it.
C29_EveryItemEnds ==
  \A i \in Items :
    [](uploads[i] # "none" => <>[](uploads[i] \in TerminalStatuses))

====
